---- MODULE Spec2Model ----
(***************************************************************************)
(* Model of fetch.js of polymarket-breaking-dashboard: the credentials     *)
(* check, main() with its three kinds of network round trip, the breaking  *)
(* analyzer, the signal classifier, the ranking and the example dataset.   *)
(*                                                                         *)
(* Numbers.  A JavaScript number that the program handles is either NaN    *)
(* or a value; it is modelled as <<>> (NaN) or <<n>>.  Prices, and the     *)
(* close field of a candle, are counted in units of 0.0001, so 0.40 is     *)
(* 4000; volumes are integers.  Quotients (avgVolume, volumeRatio,         *)
(* priceChange) are exact fractions [num, den] with den > 0, compared by   *)
(* cross multiplication; binary floating-point rounding is not modelled.   *)
(* A text field of an upstream response is [text, val]: "num" is text that *)
(* parseFloat reads as val, "junk" is text it cannot read, "undefined" is  *)
(* an absent field.                                                        *)
(***************************************************************************)
EXTENDS Integers, Sequences, FiniteSets, TLC

VARIABLES
  apiKey, apiSecret, apiPassphrase, \* presence of the three credentials
  pc,            \* position of the process
  net,           \* the response in flight for the one request awaited
  nMarkets,      \* <<clobMarkets.length>> once the list call has succeeded
  i,             \* loop index of main()
  cur,           \* locals of the iteration: the market's fields across the
                 \* await of the candles, then candles and analysis
  analyzed,      \* the array analyzed
  dataJson,      \* content of data.json
  exitCode,      \* <<status>> once the process has exited
  io,            \* history: the requests issued, the responses received and
                 \* the calls of writeFileSync, in order
  call, ret      \* argument and result of a pure function applied alone

vars == <<apiKey, apiSecret, apiPassphrase, pc, net, nMarkets, i, cur,
          analyzed, dataJson, exitCode, io, call, ret>>

mainVars == <<apiKey, apiSecret, apiPassphrase, pc, net, nMarkets, i, cur,
              analyzed, dataJson, exitCode, io>>

---------------------------------------------------------------------------
(* Values *)

\* null and undefined; a variable not assigned yet holds None.  An array is
\* [list |-> <<...>>], so that it can be told from null
Null == [null |-> TRUE]

None == [none |-> TRUE]

Arr(s) == [list |-> s]

length(a) == Len(a.list)

\* a[k] of JavaScript, k counted from 0
At(a, k) == a.list[k + 1]

NaN == <<>>

Num(n) == <<n>>

isNaN(x) == x = NaN

Txt(n) == [text |-> "num", val |-> n]

Junk == [text |-> "junk", val |-> 0]

Undefined == [text |-> "undefined", val |-> 0]

parseFloat(t) == IF t.text = "num" THEN Num(t.val) ELSE NaN

\* x || 0 for a number x: NaN and 0 are falsy
OrZero(x) == IF isNaN(x) \/ x = Num(0) THEN 0 ELSE x[1]

Abs(n) == IF n < 0 THEN -n ELSE n

Rat(n, d) == IF d < 0 THEN [num |-> -n, den |-> -d] ELSE [num |-> n, den |-> d]

RatDiv(a, b) == Rat(a.num * b.den, a.den * b.num)

RatGT(a, b) == a.num * b.den > b.num * a.den

RatLT(a, b) == a.num * b.den < b.num * a.den

RatEq(a, b) == a.num * b.den = b.num * a.den

RatAbs(a) == [num |-> Abs(a.num), den |-> a.den]

\* Number.prototype.toFixed on a fraction: the nearest multiple of 1/scale,
\* the larger one on a tie, as a count of 1/scale
RatToFixed(a, scale) == (2 * a.num * scale + a.den) \div (2 * a.den)

\* toFixed(3) of a price counted in 0.0001: thousandths, "NaN" for NaN
toFixed3(x) == IF isNaN(x) THEN NaN ELSE Num((x[1] + 5) \div 10)

jsMax(x, y) == IF isNaN(x) \/ isNaN(y) THEN NaN ELSE Num(IF x[1] > y[1] THEN x[1] ELSE y[1])

jsMin(x, y) == IF isNaN(x) \/ isNaN(y) THEN NaN ELSE Num(IF x[1] < y[1] THEN x[1] ELSE y[1])

jsSub(x, y) == IF isNaN(x) \/ isNaN(y) THEN NaN ELSE Num(x[1] - y[1])

\* x > c and x < c are false when x is NaN
jsGT(x, c) == ~isNaN(x) /\ x[1] > c

jsLT(x, c) == ~isNaN(x) /\ x[1] < c

---------------------------------------------------------------------------
(* analyzeBreaking *)

\* the loop of lines 79-82 over the 0-based positions from..to-1
RECURSIVE VolLoop(_, _, _)
VolLoop(candles, from, to) ==
  IF from >= to THEN 0
  ELSE OrZero(parseFloat(At(candles, from)[6])) + VolLoop(candles, from + 1, to)

\* lines 73-94: the metrics of a series of at least 11 candles
volSumShifted(candles) == VolLoop(candles, length(candles) - 10, length(candles))

volSum(candles) == VolLoop(candles, length(candles) - 11, length(candles) - 1)

metrics(candles) ==
  LET last == At(candles, length(candles) - 1)
      prev == At(candles, length(candles) - 2)
      lastVolume == OrZero(parseFloat(last[6]))
      lastClose == OrZero(parseFloat(last[5]))
      avgVolume == Rat(volSum(candles), 10)
      prevClose == OrZero(parseFloat(prev[5]))
      priceChange == IF prevClose > 0 THEN Rat(lastClose - prevClose, prevClose)
                     ELSE Rat(0, 1)
  IN  [volume |-> lastVolume,
       avgVolume |-> avgVolume,
       volumeRatio |-> RatDiv(Rat(lastVolume, 1),
                              IF avgVolume.num = 0 THEN Rat(1, 1) ELSE avgVolume),
       priceChange |-> priceChange,
       lastClose |-> lastClose]

ZeroMetrics ==
  [volume |-> 0, avgVolume |-> Rat(0, 10), volumeRatio |-> Rat(0, 1),
   priceChange |-> Rat(0, 1), lastClose |-> 0]

analyzeBreakingZeroFilled(candles) ==
  IF candles = Null THEN Null
  ELSE IF length(candles) < 11 THEN ZeroMetrics
  ELSE metrics(candles)

analyzeBreaking(candles) ==
  IF candles = Null \/ length(candles) < 11 THEN Null
  ELSE metrics(candles)

---------------------------------------------------------------------------
(* getSignal *)

BuyYes == [label |-> "COMPRA YES", class |-> "bg-green-600"]

AvoidSell == [label |-> "VENDA/EVITAR", class |-> "bg-red-600"]

Uptrend == [label |-> "TENDENCIA ALTA", class |-> "bg-blue-600"]

Downtrend == [label |-> "TENDENCIA BAIXA", class |-> "bg-orange-600"]

Wait == [label |-> "AGUARDAR", class |-> "bg-gray-600"]

\* the reason text: its fixed part and the number interpolated in it
\* (toFixed(3) of the price, toFixed(2) of the change in percent)
getSignalTrendFirst(yesPrice, priceChange) ==
  IF jsLT(yesPrice, 4800) /\ RatGT(priceChange, Rat(5, 1000))
  THEN [label |-> Uptrend.label, class |-> Uptrend.class,
        reason |-> <<"YES subindo", Num(RatToFixed(priceChange, 10000))>>]
  ELSE IF jsGT(yesPrice, 5200) /\ RatLT(priceChange, Rat(-5, 1000))
  THEN [label |-> Downtrend.label, class |-> Downtrend.class,
        reason |-> <<"YES caindo", Num(RatToFixed(priceChange, 10000))>>]
  ELSE IF jsLT(yesPrice, 4000)
  THEN [label |-> BuyYes.label, class |-> BuyYes.class,
        reason |-> <<"YES muito baixo", toFixed3(yesPrice)>>]
  ELSE IF jsGT(yesPrice, 6000)
  THEN [label |-> AvoidSell.label, class |-> AvoidSell.class,
        reason |-> <<"YES muito alto", toFixed3(yesPrice)>>]
  ELSE [label |-> Wait.label, class |-> Wait.class,
        reason |-> <<"Sem sinal claro", NaN>>]

getSignal(yesPrice, priceChange) ==
  IF jsLT(yesPrice, 4000)
  THEN [label |-> BuyYes.label, class |-> BuyYes.class,
        reason |-> <<"YES muito baixo", toFixed3(yesPrice)>>]
  ELSE IF jsGT(yesPrice, 6000)
  THEN [label |-> AvoidSell.label, class |-> AvoidSell.class,
        reason |-> <<"YES muito alto", toFixed3(yesPrice)>>]
  ELSE IF jsLT(yesPrice, 4800) /\ RatGT(priceChange, Rat(5, 1000))
  THEN [label |-> Uptrend.label, class |-> Uptrend.class,
        reason |-> <<"YES subindo", Num(RatToFixed(priceChange, 10000))>>]
  ELSE IF jsGT(yesPrice, 5200) /\ RatLT(priceChange, Rat(-5, 1000))
  THEN [label |-> Downtrend.label, class |-> Downtrend.class,
        reason |-> <<"YES caindo", Num(RatToFixed(priceChange, 10000))>>]
  ELSE [label |-> Wait.label, class |-> Wait.class,
        reason |-> <<"Sem sinal claro", NaN>>]

---------------------------------------------------------------------------
(* The example dataset *)

\* generateMockCandles(basePrice, count): count candles of a random walk;
\* only their number is kept
generateMockCandles(basePrice, count) == count

\* formatted numbers are counted in their last digit: "0.485" is <<485>>,
\* "3.20x" is 320, "+2.45%" is 245
MockMarkets ==
  << [id |-> <<"demo", 1>>, question |-> [len |-> 40, ellipsis |-> FALSE],
      yes |-> Num(485), no |-> Num(515), spread |-> Num(30),
      volume24h |-> Num(1250000), volumeNow |-> 45000, volumeRatio |-> 320,
      priceChange |-> 245,
      signal |-> [label |-> Uptrend.label, class |-> Uptrend.class,
                  reason |-> <<"YES subindo", Num(245)>>],
      isBreaking |-> TRUE, url |-> "slug",
      candles |-> generateMockCandles(4850, 60)],
     [id |-> <<"demo", 2>>, question |-> [len |-> 30, ellipsis |-> FALSE],
      yes |-> Num(520), no |-> Num(480), spread |-> Num(40),
      volume24h |-> Num(890000), volumeNow |-> 12000, volumeRatio |-> 110,
      priceChange |-> -32,
      signal |-> [label |-> Wait.label, class |-> Wait.class,
                  reason |-> <<"Sem sinal claro", NaN>>],
      isBreaking |-> FALSE, url |-> "slug",
      candles |-> generateMockCandles(5200, 60)],
     [id |-> <<"demo", 3>>, question |-> [len |-> 39, ellipsis |-> FALSE],
      yes |-> Num(320), no |-> Num(680), spread |-> Num(360),
      volume24h |-> Num(2100000), volumeNow |-> 8500, volumeRatio |-> 90,
      priceChange |-> 15,
      signal |-> [label |-> BuyYes.label, class |-> BuyYes.class,
                  reason |-> <<"YES muito baixo", Num(320)>>],
      isBreaking |-> FALSE, url |-> "slug",
      candles |-> generateMockCandles(3200, 60)] >>

mock == [totalMarkets |-> 3, breakingCount |-> 1, markets |-> MockMarkets]

---------------------------------------------------------------------------
(* main: the helpers *)

\* 50 in the source (line 147), scaled down
MarketCap == 2

Min(a, b) == IF a < b THEN a ELSE b

Falsy(x) == x = Null \/ x = None

\* fetchGammaMarket: every failure is caught and gives null
fetchGammaMarket(res) ==
  IF res.kind # "ok" THEN Null
  ELSE IF ~Falsy(res.body.markets) /\ length(res.body.markets) > 0
       THEN At(res.body.markets, 0)
       ELSE Null

\* fetchCandles: a rejected request or an unreadable body throws
fetchCandles(res) ==
  IF res.kind \in {"throw", "badbody"} THEN [threw |-> TRUE, value |-> Null]
  ELSE IF res.kind = "notok" THEN [threw |-> FALSE, value |-> Null]
  ELSE [threw |-> FALSE,
        value |-> IF ~Falsy(res.body.candles) THEN res.body.candles
                  ELSE IF ~Falsy(res.body.data) THEN res.body.data
                  ELSE Null]

\* lines 162-166: the array of prices, or Null when the market is skipped
readPrices(market) ==
  LET prices == IF market.outcomePrices.kind = "string"
                THEN market.outcomePrices.json   \* Null: JSON.parse threw
                ELSE market.outcomePrices.value
  IN  IF Falsy(prices) \/ length(prices) < 2 THEN Null ELSE prices

\* line 170
zeroPrice(yes, no) == yes = Num(0) \/ no = Num(0)

\* lines 178-181
isBreakingAtLeast(analysis, yes, no) ==
  /\ ~RatLT(analysis.volumeRatio, Rat(3, 1))
  /\ RatGT(RatAbs(analysis.priceChange), Rat(1, 100))
  /\ jsGT(jsSub(jsMax(yes, no), jsMin(yes, no)), 200)

isBreakingOf(analysis, yes, no) ==
  /\ RatGT(analysis.volumeRatio, Rat(3, 1))
  /\ RatGT(RatAbs(analysis.priceChange), Rat(1, 100))
  /\ jsGT(jsSub(jsMax(yes, no), jsMin(yes, no)), 200)

\* market.volume || 0, then parseFloat
volume24hOf(volume) ==
  IF volume.text = "undefined" THEN Num(0) ELSE parseFloat(volume)

\* lines 189-203; lastUpdate (the clock) is left out, raw keeps the numbers
\* the entry was built from
entry(marketId, c, candles, analysis) ==
  [id |-> <<"market", marketId>>,
   question |-> [len |-> Min(c.question, 80), ellipsis |-> c.question > 80],
   yes |-> toFixed3(c.yes),
   no |-> toFixed3(c.no),
   spread |-> toFixed3(jsSub(jsMax(c.yes, c.no), jsMin(c.yes, c.no))),
   volume24h |-> volume24hOf(c.volume),
   volumeNow |-> analysis.volume,
   volumeRatio |-> RatToFixed(analysis.volumeRatio, 100),
   priceChange |-> RatToFixed(analysis.priceChange, 10000),
   signal |-> getSignal(c.yes, analysis.priceChange),
   isBreaking |-> isBreakingOf(analysis, c.yes, c.no),
   url |-> IF c.slug THEN "slug" ELSE "marketId",
   raw |-> [yes |-> c.yes, no |-> c.no, analysis |-> analysis,
            candles |-> candles]]

\* the comparator of lines 207-210
BoolNum(b) == IF b THEN 1 ELSE 0

compareVolumeOnly(a, b) == b.volumeNow - a.volumeNow

compare(a, b) ==
  IF b.isBreaking # a.isBreaking THEN BoolNum(b.isBreaking) - BoolNum(a.isBreaking)
  ELSE b.volumeNow - a.volumeNow

\* Array.prototype.sort is stable: each element goes behind every element
\* already placed that the comparator does not put after it
Insert(sorted, x) ==
  LET k == Cardinality({j \in 1..Len(sorted) : compare(sorted[j], x) <= 0})
  IN  SubSeq(sorted, 1, k) \o <<x>> \o SubSeq(sorted, k + 1, Len(sorted))

RECURSIVE sort(_)
sort(arr) ==
  IF arr = <<>> THEN <<>>
  ELSE Insert(sort(SubSeq(arr, 1, Len(arr) - 1)), arr[Len(arr)])

RECURSIVE CountBreaking(_)
CountBreaking(arr) ==
  IF arr = <<>> THEN 0
  ELSE BoolNum(Head(arr).isBreaking) + CountBreaking(Tail(arr))

\* lines 212-217; generatedAt (the clock) is left out
outputNoFilter(arr) ==
  [totalMarkets |-> Len(arr), breakingCount |-> Len(arr), markets |-> arr]

output(arr) ==
  [totalMarkets |-> Len(arr), breakingCount |-> CountBreaking(arr), markets |-> arr]

---------------------------------------------------------------------------
(* What the upstream may answer *)

ListResponses ==
  [kind : {"throw", "notok", "badbody"}]
  \cup [kind : {"ok"}, data : {NaN}, markets : {NaN}]
  \cup [kind : {"ok"}, data : {Num(n) : n \in 0..(MarketCap + 1)}, markets : {NaN}]
  \cup [kind : {"ok"}, data : {NaN}, markets : {Num(1)}]

\* a Gamma market: whether it has a slug, and the length of its question
\* (0 when it has none)
GammaMarkets == {[slug |-> TRUE, question |-> 81], [slug |-> FALSE, question |-> 0]}

GammaResponses ==
  [kind : {"throw", "notok", "badbody"}]
  \cup [kind : {"ok"},
        body : [markets : {None, Arr(<<>>)} \cup {Arr(<<g>>) : g \in GammaMarkets}]]

PricePairs ==
  {<<Txt(3996), Txt(7000)>>, <<Txt(4900), Txt(5100)>>, <<Junk, Txt(5000)>>,
   <<Txt(0), Txt(5000)>>, <<Txt(5000), Txt(0)>>, <<Txt(-2000), Txt(5000)>>}

PricesInputs ==
  {[kind |-> "undefined", value |-> None],
   [kind |-> "string", json |-> Null],
   [kind |-> "string", json |-> Arr(<<Txt(3996), Txt(7000)>>)],
   [kind |-> "array", value |-> Arr(<<Txt(5000)>>)]}
  \cup {[kind |-> "array", value |-> Arr(p)] : p \in PricePairs}

\* the volume of a market is a number, except for one market whose volume
\* cannot be parsed
MarketInputs ==
  [outcomePrices : PricesInputs, volume : {Txt(500)}]
  \cup {[outcomePrices |-> [kind |-> "array", value |-> Arr(<<Txt(3996), Txt(7000)>>)],
         volume |-> Junk]}

\* a series of n candles, oldest first: every candle before the trailing
\* window has volume head, the window has volume w except its last candle
\* (the one before the current candle) which has prevV, the current candle
\* has lastV; every close is prevC except the current one, lastC
MkSeries(n, head, w, prevV, lastV, prevC, lastC) ==
  Arr([k \in 1..n |->
     <<Txt(k),
       IF k = n THEN lastC ELSE prevC,
       IF k = n THEN lastC ELSE prevC,
       IF k = n THEN lastC ELSE prevC,
       IF k = n THEN lastC ELSE prevC,
       IF k = n THEN lastV
       ELSE IF k = n - 1 THEN prevV
       ELSE IF k >= n - 10 THEN w
       ELSE head>>])

\* the series a candle response may carry: empty, ten candles, and three of
\* eleven: ratio 4 and change 2.5%, ratio exactly 3, change exactly 1%
MainSeries ==
  {MkSeries(0, Txt(0), Txt(0), Txt(0), Txt(0), Txt(0), Txt(0)),
   MkSeries(10, Txt(70), Txt(10), Txt(10), Txt(40), Txt(4000), Txt(4100)),
   MkSeries(11, Txt(70), Txt(10), Txt(10), Txt(40), Txt(4000), Txt(4100)),
   MkSeries(11, Txt(70), Txt(20), Txt(20), Txt(60), Txt(4000), Txt(4100)),
   MkSeries(11, Txt(70), Txt(10), Txt(10), Txt(40), Txt(4000), Txt(4040))}

CandleResponses ==
  [kind : {"throw", "notok", "badbody"}]
  \cup [kind : {"ok"}, body : [candles : MainSeries, data : {None}]]
  \cup [kind : {"ok"}, body : [candles : {None}, data : {None}]]
  \cup [kind : {"ok"},
        body : [candles : {None},
                data : {MkSeries(11, Txt(70), Txt(10), Txt(10), Txt(40),
                                 Txt(4000), Txt(4100))}]]

---------------------------------------------------------------------------
(* main: the process *)

AllCredentials == apiKey /\ apiSecret /\ apiPassphrase

Init ==
  /\ apiKey \in BOOLEAN /\ apiSecret \in BOOLEAN /\ apiPassphrase \in BOOLEAN
  /\ pc = "start" /\ net = None /\ nMarkets = NaN /\ i = 0 /\ cur = None
  /\ analyzed = <<>> /\ dataJson = None /\ exitCode = NaN
  /\ io = <<>>
  /\ call = None /\ ret = None

\* the events of the history: market is the loop index, -1 for the list
Request(kind, market) == [ev |-> "request", kind |-> kind, market |-> market]

Response(kind, market, ok) ==
  [ev |-> "response", kind |-> kind, market |-> market, ok |-> ok]

WriteFile(what, threw) == [ev |-> "write", what |-> what, threw |-> threw]

\* generateMockData() and what follows it, log being the history so far: the
\* write succeeds and the process ends with status 0, or writeFileSync
\* throws, nothing is written and the process ends with status 1 (an
\* uncaught exception at the top level, process.exit(1) in the catch of
\* main())
generateMockData(log) ==
  /\ \E written \in BOOLEAN :
       IF written
       THEN /\ dataJson' = mock
            /\ exitCode' = Num(0)
            /\ io' = Append(log, WriteFile("mock", FALSE))
       ELSE /\ dataJson' = dataJson
            /\ exitCode' = Num(1)
            /\ io' = Append(log, WriteFile("mock", TRUE))
  /\ pc' = "exited"
  /\ net' = None

\* a catch that writes what was analyzed so far
CatchWritesPartial(log) ==
  /\ dataJson' = output(analyzed)
  /\ exitCode' = Num(0)
  /\ io' = Append(log, WriteFile("report", FALSE))
  /\ pc' = "exited"
  /\ net' = None
  /\ UNCHANGED <<i, cur, analyzed>>

\* a catch that gives up with status 1
CatchExits(log) ==
  /\ exitCode' = Num(1)
  /\ io' = log
  /\ pc' = "exited"
  /\ net' = None
  /\ UNCHANGED <<i, cur, analyzed, dataJson>>

\* the catch of main(), lines 223-226
Catch(log) ==
  /\ generateMockData(log)
  /\ UNCHANGED <<i, cur, analyzed>>

\* lines 206-221: sort in place, build the report, write it; a write that
\* throws lands in the catch
Finish(arr, locals, log) ==
  \E sorted \in {sort(arr)} :
  /\ analyzed' = sorted
  /\ \/ /\ dataJson' = output(sorted)
        /\ exitCode' = Num(0)
        /\ io' = Append(log, WriteFile("report", FALSE))
        /\ pc' = "exited"
        /\ net' = None
     \/ generateMockData(Append(log, WriteFile("report", TRUE)))
  /\ cur' = locals

\* a loop over the whole list
LoopUncapped(k, len, arr, locals, log) ==
  /\ i' = k
  /\ IF k < len
     THEN /\ pc' = "gamma"
          /\ net' \in GammaResponses
          /\ io' = Append(log, Request("gamma", k))
          /\ cur' = locals
          /\ analyzed' = arr
          /\ UNCHANGED <<dataJson, exitCode>>
     ELSE Finish(arr, locals, log)

\* the head of the loop at index k with the array arr, locals being what
\* the iteration before left and log the history so far: the next market is
\* looked up in Gamma, or the loop is over
Loop(k, len, arr, locals, log) ==
  /\ i' = k
  /\ IF k < Min(len, MarketCap)
     THEN /\ pc' = "gamma"
          /\ net' \in GammaResponses
          /\ io' = Append(log, Request("gamma", k))
          /\ cur' = locals
          /\ analyzed' = arr
          /\ UNCHANGED <<dataJson, exitCode>>
     ELSE Finish(arr, locals, log)

\* lines 15-19
DemoMode ==
  /\ pc = "start"
  /\ ~AllCredentials
  /\ generateMockData(io)
  /\ UNCHANGED <<apiKey, apiSecret, apiPassphrase, nMarkets, i, cur, analyzed, call, ret>>

\* line 137: main() asks for the market list
StartMain ==
  /\ pc = "start"
  /\ AllCredentials
  /\ pc' = "list"
  /\ net' \in ListResponses
  /\ io' = Append(io, Request("list", -1))
  /\ UNCHANGED <<apiKey, apiSecret, apiPassphrase, nMarkets, i, cur, analyzed,
                 dataJson, exitCode, call, ret>>

\* lines 138-147: the answer to the market list
ListResponse ==
  /\ pc = "list"
  /\ LET log == Append(io, Response("list", -1, net.kind = "ok"))
     IN  IF net.kind = "ok"
         THEN LET len == IF net.data # NaN THEN net.data[1]
                         ELSE IF net.markets # NaN THEN net.markets[1]
                         ELSE 0
              IN  /\ nMarkets' = Num(len)
                  /\ Loop(0, len, <<>>, None, log)
         ELSE /\ Catch(log)
              /\ UNCHANGED nMarkets
  /\ UNCHANGED <<apiKey, apiSecret, apiPassphrase, call, ret>>

\* lines 152-173: the answer of Gamma for market i, the prices of the market
GammaResponse ==
  /\ pc = "gamma"
  /\ \E market \in MarketInputs :
       LET gammaMarket == fetchGammaMarket(net)
           prices == readPrices(market)
           yes == parseFloat(At(prices, 0))
           no == parseFloat(At(prices, 1))
           log == Append(io, Response("gamma", i, gammaMarket # Null))
       IN  IF gammaMarket = Null \/ prices = Null \/ zeroPrice(yes, no)
           THEN Loop(i + 1, nMarkets[1], analyzed, None, log)
           ELSE /\ pc' = "candles"
                /\ net' \in CandleResponses
                /\ io' = Append(log, Request("candles", i))
                /\ cur' = [yes |-> yes, no |-> no, volume |-> market.volume,
                           slug |-> gammaMarket.slug,
                           question |-> gammaMarket.question]
                /\ UNCHANGED <<i, analyzed, dataJson, exitCode>>
  /\ UNCHANGED <<apiKey, apiSecret, apiPassphrase, nMarkets, call, ret>>

\* lines 173-204: the answer to the candle request of market i
CandlesResponse ==
  /\ pc = "candles"
  /\ \E fetched \in {fetchCandles(net)} :
     \E candles \in {fetched.value} :
     \E analysis \in {analyzeBreaking(candles)} :
     \E arr \in {IF analysis = Null THEN analyzed
                 ELSE Append(analyzed, entry(i, cur, candles, analysis))} :
     LET log == Append(io, Response("candles", i, ~fetched.threw))
     IN  IF fetched.threw THEN Catch(log)
         ELSE Loop(i + 1, nMarkets[1], arr,
                   [candles |-> candles, analysis |-> analysis], log)
  /\ UNCHANGED <<apiKey, apiSecret, apiPassphrase, nMarkets, call, ret>>

Next == DemoMode \/ StartMain \/ ListResponse \/ GammaResponse \/ CandlesResponse

Spec == Init /\ [][Next]_vars

\* the process has not exited: its top-level code is about to run, or the
\* response its callback waits for has arrived
Running == pc # "exited"

\* the event loop lets the process go on: it moves to its next await, to
\* the next market, or to its exit
Resume ==
  /\ Running
  /\ pc' \in {"list", "gamma", "candles", "exited"}
  /\ i' \in 0..(MarketCap + 1)

\* the event loop runs what can run.  Every step of Next changes <<pc, i>>
\* and Next is enabled exactly while Running, so this is WF_vars(Next)
\* stated on the position of the process alone.
FairSpec == Init /\ [][Next]_vars /\ WF_<<pc, i>>(Resume)

---------------------------------------------------------------------------
(* The pure functions applied alone to inputs drawn from bounded sets *)

MaxLen == 13

SeriesLengths == {0, 1, 9, 10, 11, 12, MaxLen}

SeriesInputs ==
  {Null} \cup
  {MkSeries(n, head, w, prevV, lastV, prevC, lastC) :
     n \in SeriesLengths, head \in {Txt(0), Txt(70)},
     w \in {Txt(0), Txt(10), Junk}, prevV \in {Txt(0), Txt(10), Txt(20)},
     lastV \in {Txt(0), Txt(30), Txt(33), Junk},
     prevC \in {Txt(4000), Txt(0), Junk}, lastC \in {Txt(4100), Txt(4000)}}

YesInputs ==
  {Num(y) : y \in {0, 1000, 3999, 4000, 4001, 4500, 4799, 4800, 4801, 5000,
                   5199, 5200, 5201, 5500, 5999, 6000, 6001, 9000, 10000}}

ChangeInputs == {Rat(c, 10000) : c \in {-200, -51, -50, 0, 50, 51, 200}}

Idle ==
  /\ apiKey = FALSE /\ apiSecret = FALSE /\ apiPassphrase = FALSE
  /\ pc = "fn" /\ net = None /\ nMarkets = NaN /\ i = 0 /\ cur = None
  /\ analyzed = <<>> /\ dataJson = None /\ exitCode = NaN
  /\ io = <<>>

InitFn ==
  /\ Idle
  /\ ret = None
  /\ call \in [fn : {"getSignal"}, yesPrice : YesInputs, priceChange : ChangeInputs]
              \cup [fn : {"analyzeBreaking"}, candles : SeriesInputs]

CallGetSignal ==
  /\ pc = "fn" /\ ret = None /\ call.fn = "getSignal"
  /\ ret' = getSignal(call.yesPrice, call.priceChange)
  /\ UNCHANGED <<mainVars, call>>

CallAnalyzeBreaking ==
  /\ pc = "fn" /\ ret = None /\ call.fn = "analyzeBreaking"
  /\ ret' = analyzeBreaking(call.candles)
  /\ UNCHANGED <<mainVars, call>>

NextFn == CallGetSignal \/ CallAnalyzeBreaking

SpecFn == InitFn /\ [][NextFn]_vars

---------------------------------------------------------------------------
(* C5 *)

Returned(fn) == pc = "fn" /\ ret # None /\ call.fn = fn

\* the category the ordered list of section 4.3 names, rule by rule, each
\* rule applying only where every earlier rule failed
ListedCategory(y, c) ==
  CASE y < 4000 -> BuyYes
    [] y >= 4000 /\ y > 6000 -> AvoidSell
    [] y >= 4000 /\ y <= 6000 /\ y < 4800 /\ c.num * 1000 > 5 * c.den -> Uptrend
    [] y >= 4000 /\ y <= 6000 /\ ~(y < 4800 /\ c.num * 1000 > 5 * c.den)
         /\ y > 5200 /\ c.num * 1000 < -5 * c.den -> Downtrend
    [] OTHER -> Wait

---------------------------------------------------------------------------
(* C8 *)

\* the volume of a candle as the report counts it: 0 when it cannot be parsed
VolumeOf(candle) == IF candle[6].text = "num" THEN candle[6].val ELSE 0

RECURSIVE SumVolumes(_)
SumVolumes(cs) == IF cs = <<>> THEN 0 ELSE VolumeOf(Head(cs)) + SumVolumes(Tail(cs))

\* the candles at the 0-based positions n-11 to n-2
TrailingWindow(candles) ==
  SubSeq(candles.list, length(candles) - 10, length(candles) - 1)

Analyzable(candles) == candles # Null /\ length(candles) >= 11

\* C8: for a series of n >= 11 candles, volumeRatio is the volume of the last
\* candle divided by the mean of the volumes of exactly the 10 candles at
\* positions n-11 to n-2, and by 1 when that mean is zero.
C8_RatioOverTrailingWindow ==
  (Returned("analyzeBreaking") /\ Analyzable(call.candles)) =>
    LET window == TrailingWindow(call.candles)
        sum == SumVolumes(window)
        lastVolume == VolumeOf(call.candles.list[length(call.candles)])
    IN  /\ Len(window) = 10
        /\ IF sum = 0
           THEN ret.volumeRatio.num = lastVolume * ret.volumeRatio.den
           ELSE ret.volumeRatio.num * sum = lastVolume * 10 * ret.volumeRatio.den

\* twelve candles, the one before the window and the last one with volumes
\* that differ from the window's: 30 over a mean of 10
C8_Witness ==
  /\ Returned("analyzeBreaking") /\ Analyzable(call.candles)
  /\ length(call.candles) = 12
  /\ VolumeOf(call.candles.list[1]) = 70
  /\ VolumeOf(call.candles.list[12]) = 30
  /\ SumVolumes(TrailingWindow(call.candles)) = 100
  /\ RatEq(ret.volumeRatio, Rat(3, 1))

---------------------------------------------------------------------------
(* Claims about main() *)

Exited == pc = "exited"

IsLive(e) == e.id[1] = "market"

IsExample(e) == e.id[1] = "demo"

Written == dataJson # None

WrittenMarkets == IF Written THEN dataJson.markets ELSE <<>>

LiveReport == Written /\ dataJson # mock

\* every live entry the program holds: in the array and in the file
LiveEntries ==
  {analyzed[k] : k \in 1..Len(analyzed)}
  \cup {e \in {WrittenMarkets[k] : k \in 1..Len(WrittenMarkets)} : IsLive(e)}

CandleRequestFailed == pc = "candles" /\ net.kind \in {"throw", "notok", "badbody"}

\* C1: when the candle request of one market fails (non-OK status, network
\* error, unreadable body) only that market is left out: the loop goes on to
\* the next market with the array as it was, and when that market was the
\* last one the report of the markets analyzed is what gets written (the
\* example dataset only if that write itself throws).
C1_CandleFailureSkipsOnlyThatMarket ==
  [][CandleRequestFailed =>
       IF i + 1 < Min(nMarkets[1], MarketCap)
       THEN pc' = "gamma" /\ i' = i + 1 /\ analyzed' = analyzed /\ dataJson' = dataJson
       ELSE \/ dataJson' = output(sort(analyzed))
            \/ dataJson' = mock
            \/ exitCode' = Num(1)]_vars

UpstreamUnusable == ~AllCredentials \/ (Exited /\ nMarkets = NaN)

\* C2: when a credential is absent or the market-list call fails, the run
\* ends with the complete example dataset in data.json (status 0); the file
\* never holds a partial list nor a mix of live and example markets.  The
\* one other ending is the write of the example dataset itself throwing:
\* status 1 and nothing written.
C2_FallbackIsCompleteExample ==
  /\ (Exited /\ UpstreamUnusable) =>
       \/ exitCode = Num(0) /\ dataJson = mock
       \/ exitCode = Num(1) /\ dataJson = None
  /\ (~Exited /\ UpstreamUnusable) => dataJson = None
  /\ Written =>
       \/ \A k \in 1..Len(dataJson.markets) : IsExample(dataJson.markets[k])
       \/ \A k \in 1..Len(dataJson.markets) : IsLive(dataJson.markets[k])

\* the market-list call failed although the credentials were there
C2_Witness ==
  /\ Exited /\ AllCredentials /\ nMarkets = NaN
  /\ exitCode = Num(0) /\ dataJson = mock

\* C3: in every artifact written, live or example, totalMarkets is the number
\* of entries of markets and breakingCount the number of entries whose
\* isBreaking is true.
C3_CountsMatchEntries ==
  Written =>
    /\ dataJson.totalMarkets = Len(dataJson.markets)
    /\ dataJson.breakingCount =
         Cardinality({k \in 1..Len(dataJson.markets) : dataJson.markets[k].isBreaking})

\* a live report of two markets of which one is breaking
C3_Witness ==
  /\ Exited /\ LiveReport
  /\ Len(dataJson.markets) = 2
  /\ dataJson.markets[1].isBreaking /\ ~dataJson.markets[2].isBreaking
  /\ dataJson.breakingCount = 1

\* the three thresholds of section 4.2 on the numbers an entry was built from
RatioAbove3(e) == e.raw.analysis.volumeRatio.num > 3 * e.raw.analysis.volumeRatio.den

ChangeAbove1Percent(e) ==
  100 * Abs(e.raw.analysis.priceChange.num) > e.raw.analysis.priceChange.den

SpreadAbove2Percent(e) ==
  /\ e.raw.yes # NaN /\ e.raw.no # NaN
  /\ Abs(e.raw.yes[1] - e.raw.no[1]) > 200

\* C4: for every market added to the report, isBreaking is true exactly when
\* volumeRatio > 3, |priceChange| > 0.01 and |yes - no| > 0.02 all hold,
\* each strictly.
C4_BreakingIffAllThree ==
  \A e \in LiveEntries :
    e.isBreaking <=> (RatioAbove3(e) /\ ChangeAbove1Percent(e) /\ SpreadAbove2Percent(e))

\* a market with a ratio of exactly 3, the other two conditions true
C4_Witness ==
  \E e \in LiveEntries :
    /\ RatEq(e.raw.analysis.volumeRatio, Rat(3, 1))
    /\ ChangeAbove1Percent(e) /\ SpreadAbove2Percent(e)
    /\ ~e.isBreaking

FetchIndex(e) == e.id[2]

\* C6: the report is ordered breaking first, then by volumeNow descending,
\* and entries with the same isBreaking and the same volumeNow keep the order
\* in which they were fetched.
C6_BreakingFirstThenVolumeStable ==
  (Exited /\ LiveReport) =>
    \A j, k \in 1..Len(dataJson.markets) :
      j < k =>
        LET a == dataJson.markets[j]
            b == dataJson.markets[k]
        IN  /\ ~(~a.isBreaking /\ b.isBreaking)
            /\ (a.isBreaking = b.isBreaking) => a.volumeNow >= b.volumeNow
            /\ (a.isBreaking = b.isBreaking /\ a.volumeNow = b.volumeNow)
                 => FetchIndex(a) < FetchIndex(b)

\* a breaking market fetched second, with less volume than the non-breaking
\* market fetched first, is first in the report
C6_Witness ==
  /\ Exited /\ LiveReport
  /\ Len(dataJson.markets) = 2
  /\ FetchIndex(dataJson.markets[1]) = 1 /\ FetchIndex(dataJson.markets[2]) = 0
  /\ dataJson.markets[1].isBreaking /\ ~dataJson.markets[2].isBreaking
  /\ dataJson.markets[1].volumeNow < dataJson.markets[2].volumeNow

Analyzed(locals) == locals # None /\ "analysis" \in DOMAIN locals

\* C7: analyzeBreaking returns null, not a record, for a missing series and
\* for every series of fewer than 11 candles, and no market whose series was
\* not analyzable is in the report.
C7_ShortSeriesAbsent ==
  /\ (Analyzed(cur) /\ ~Analyzable(cur.candles)) => cur.analysis = Null
  /\ \A e \in LiveEntries : Analyzable(e.raw.candles)

\* the second market came with exactly 10 candles: the report has the first
\* market only
C7_Witness ==
  /\ Exited /\ LiveReport
  /\ Analyzed(cur) /\ cur.candles # Null /\ length(cur.candles) = 10
  /\ cur.analysis = Null
  /\ i = 2 /\ Len(dataJson.markets) = 1

NoNaN(e) ==
  /\ e.yes # NaN /\ e.no # NaN /\ e.spread # NaN /\ e.volume24h # NaN
  /\ e.raw.yes # NaN /\ e.raw.no # NaN

\* C9: a price or volume that cannot be parsed is coerced to 0: no NaN is in
\* the numbers an entry is built from nor in the fields of the report.
C9_NoNaNReachesReport == \A e \in LiveEntries : NoNaN(e)

\* C10: every market in the report has both outcome prices strictly positive
\* and was found in Gamma.
C10_PricesStrictlyPositive ==
  \A e \in LiveEntries :
    /\ e.raw.yes # NaN /\ e.raw.no # NaN
    /\ e.raw.yes[1] > 0 /\ e.raw.no[1] > 0

---------------------------------------------------------------------------
(* C13 *)

\* the numbers an entry records, read back: yes is in thousandths,
\* priceChange in hundredths of a percent
RecordedYes(e) == IF e.yes = NaN THEN NaN ELSE Num(e.yes[1] * 10)

RecordedChange(e) == Rat(e.priceChange, 10000)

\* C13: in every artifact written, live or example, the signal of each
\* market is the category getSignal gives for the yes price and the price
\* change the entry records.
C13_SignalMatchesRecordedValues ==
  \A k \in 1..Len(WrittenMarkets) :
    WrittenMarkets[k].signal.label
      = getSignal(RecordedYes(WrittenMarkets[k]), RecordedChange(WrittenMarkets[k])).label

---------------------------------------------------------------------------
(* C11 *)

LastEvent == io[Len(io)]

\* the last act of the run was a write of data.json that went through
EndedWithWrite ==
  /\ io # <<>>
  /\ LastEvent.ev = "write" /\ ~LastEvent.threw
  /\ Written
  /\ (LastEvent.what = "mock") <=> (dataJson = mock)

\* the last act of the run was the write of the example dataset throwing
FallbackFailed ==
  /\ io # <<>>
  /\ LastEvent = WriteFile("mock", TRUE)

RunEndsOneOfTwoWays ==
  /\ ~Exited => exitCode = NaN
  /\ Exited =>
       \/ exitCode = Num(0) /\ EndedWithWrite
       \/ exitCode = Num(1) /\ FallbackFailed

\* Running is the enabling condition of Next
RunningIsEnabled == Running <=> ENABLED <<Next>>_vars

\* every step of the process is a step of Resume
EveryStepResumes == [][<<Resume>>_<<pc, i>>]_vars

\* C11: every run ends, either having written data.json with status 0 or
\* with a non-zero status; the status is non-zero only when the write of the
\* example dataset itself failed, never for an upstream failure, a failure
\* for one market or a malformed field alone.
C11_EveryRunEnds == []RunEndsOneOfTwoWays /\ <>Exited

\* the market-list call failed and the write of the example dataset threw
C11_Witness ==
  /\ Exited /\ exitCode = Num(1)
  /\ AllCredentials /\ nMarkets = NaN
  /\ io = <<Request("list", -1), Response("list", -1, FALSE), WriteFile("mock", TRUE)>>

---------------------------------------------------------------------------
(* C12 *)

RequestAt(k) == io[k].ev = "request"

ResponseAt(k) == io[k].ev = "response"

Requests == {k \in 1..Len(io) : RequestAt(k)}

Outstanding == Cardinality(Requests) - Cardinality({k \in 1..Len(io) : ResponseAt(k)})

\* nothing happens between a request and its own response, and the process
\* is suspended exactly while a request is outstanding
OneRoundTripAtATime ==
  /\ \A k \in Requests :
       k < Len(io) => io[k + 1] \in {Response(io[k].kind, io[k].market, ok) : ok \in BOOLEAN}
  /\ Outstanding = IF pc \in {"list", "gamma", "candles"} THEN 1 ELSE 0
  /\ Outstanding = 1 => RequestAt(Len(io))

\* the list call comes first; the markets are asked about in the order of
\* the list, each at most once in Gamma and then at most once for candles
MarketsInTurn ==
  \A k, l \in Requests :
    k < l =>
      /\ io[l].kind # "list"
      /\ io[k].market <= io[l].market
      /\ io[k].market = io[l].market => io[k].kind = "gamma" /\ io[l].kind = "candles"

\* a candle request directly follows the successful Gamma lookup of the same
\* market
CandlesAfterGamma ==
  \A k \in Requests :
    io[k].kind = "candles" => k > 1 /\ io[k - 1] = Response("gamma", io[k].market, TRUE)

\* the step that issues a candle request read two prices, neither of them 0,
\* from the market's record
CandlesAfterPriceFilters ==
  (pc' = "candles" /\ pc # "candles") =>
     \E market \in MarketInputs :
       /\ readPrices(market) # Null
       /\ cur'.yes = parseFloat(At(readPrices(market), 0))
       /\ cur'.no = parseFloat(At(readPrices(market), 1))
       /\ cur'.yes # Num(0) /\ cur'.no # Num(0)

\* only markets of the list, and only the first MarketCap of them
WithinCap ==
  \A k \in Requests :
    io[k].kind # "list" =>
      /\ io[k].market >= 0
      /\ io[k].market < MarketCap
      /\ nMarkets # NaN /\ io[k].market < nMarkets[1]

\* C12: during a run of main() at most one request is outstanding at any
\* moment; the requests of a market (Gamma, then candles) are over before a
\* request of the next market is issued; the candle request of a market is
\* issued only after its Gamma lookup succeeded and its prices passed the
\* filters; and no request is issued for a market beyond the cap.
C12_OneRequestAtATimeInOrder ==
  /\ [](OneRoundTripAtATime /\ MarketsInTurn /\ CandlesAfterGamma /\ WithinCap)
  /\ [][CandlesAfterPriceFilters]_vars

\* a list longer than the cap, every market within the cap asked about in
\* Gamma and for candles, and the report written
C12_Witness ==
  /\ Exited /\ exitCode = Num(0) /\ LiveReport
  /\ nMarkets = Num(MarketCap + 1)
  /\ \A m \in 0..(MarketCap - 1) :
       \E k \in Requests : io[k] = Request("gamma", m) /\ io[k + 2] = Request("candles", m)

====
